---- MODULE Spec2Model ----
(***************************************************************************)
(* Model of check_gemini_keys.py: main() reads credential lines, filters   *)
(* the blank ones, submits one check_key task per credential to a          *)
(* ThreadPoolExecutor and folds the futures, as they complete, into        *)
(* valid_keys and the per-key failure lines on stderr.                     *)
(*                                                                         *)
(* A string is a sequence of one-character strings.                        *)
(***************************************************************************)
EXTENDS Integers, Sequences, FiniteSets, Bags, TLC

\* ---------------------------------------------------------------- bounds
MaxLines == 2
MaxWorkers == 2

\* ------------------------------------------------------------- strings
Whitespace == {" "}

RECURSIVE LStrip(_)
LStrip(s) ==
    IF s = <<>> THEN s
    ELSE IF Head(s) \in Whitespace THEN LStrip(Tail(s)) ELSE s

RECURSIVE RStrip(_)
RStrip(s) ==
    IF s = <<>> THEN s
    ELSE IF s[Len(s)] \in Whitespace THEN RStrip(SubSeq(s, 1, Len(s) - 1)) ELSE s

\* str.strip()
Strip(s) == RStrip(LStrip(s))

\* the lines an input file or stdin may hold
SampleLines ==
    { <<" ">>, <<"\"", " ">>, <<" ", "b", "c", "d", "e", "f", "g", "h", "i", "j">> }

\* the api_key arguments a caller that does not filter may pass to check_key
SampleKeys == { <<>>, <<" ">>, <<"a">> }

RECURSIVE FilterLines(_)
\* [key.strip() for key in keys_to_check if key.strip()]
FilterLines(ls) ==
    IF ls = <<>> THEN <<>>
    ELSE IF Strip(Head(ls)) # <<>>
         THEN <<Strip(Head(ls))>> \o FilterLines(Tail(ls))
         ELSE FilterLines(Tail(ls))

\* ---------------------------------------------------- exception classes
None == "None"

\* what model.generate_content can raise: classes of google.api_core.exceptions
\* and builtin exceptions, each with the classes it is an instance of
ServiceClasses ==
    {"PermissionDenied", "InvalidArgument", "ResourceExhausted", "DeadlineExceeded"}
OtherClasses == {"TimeoutError"}
ExceptionClasses == ServiceClasses \cup OtherClasses

Mro(cls) ==
    IF cls \in ServiceClasses
    THEN {cls, "GoogleAPICallError", "Exception"}
    ELSE {cls, "Exception"}

\* e.code of a GoogleAPICallError
HttpCode(cls) ==
    CASE cls = "PermissionDenied" -> 403
      [] cls = "InvalidArgument" -> 400
      [] cls = "ResourceExhausted" -> 429
      [] cls = "DeadlineExceeded" -> 504
      [] OTHER -> 0

\* the classes raised when the call exceeds request_options['timeout']
TimeoutClasses == {"DeadlineExceeded", "TimeoutError"}

\* what one network call does: returns (None) or raises one of the classes
RawResults == {None} \cup ExceptionClasses

\* what a call does in a whole run of main: success, a named service error, a
\* service error none of the clauses names, a non-service exception
RunResults == {None, "PermissionDenied", "DeadlineExceeded", "TimeoutError"}

IsInstance(e, cls) == cls \in Mro(e)

ModelName == "gemini-2.0-flash-lite"

\* ------------------------------------------------------------ check_key
Reason(msg, code, detail) == [msg |-> msg, code |-> code, detail |-> detail]

Returned(api_key, is_valid, reason) ==
    [raises |-> None, key |-> api_key, is_valid |-> is_valid, reason |-> reason]

\* an exception no except clause of check_key matches leaves check_key
Propagated(api_key, e) ==
    [raises |-> e, key |-> api_key, is_valid |-> FALSE, reason |-> Reason("", 0, "")]

\* mutant: only `if not api_key`
IsEmptyKey(api_key) == api_key = <<>>

\* if not api_key or not api_key.strip()
IsBlankKey(api_key) == api_key = <<>> \/ Strip(api_key) = <<>>

\* mutant: no `except Exception` clause
check_key_try_no_catch_all(api_key, model_name, raised) ==
    IF raised = None
    THEN Returned(api_key, TRUE, Reason("Valid", 0, ""))
    ELSE IF IsInstance(raised, "PermissionDenied")
    THEN Returned(api_key, FALSE, Reason("Permission Denied", 403, ""))
    ELSE IF IsInstance(raised, "InvalidArgument")
    THEN Returned(api_key, FALSE, Reason("Invalid Argument", 400, model_name))
    ELSE IF IsInstance(raised, "ResourceExhausted")
    THEN Returned(api_key, FALSE, Reason("Resource Exhausted", 429, ""))
    ELSE IF IsInstance(raised, "GoogleAPICallError")
    THEN Returned(api_key, FALSE, Reason("Google API Error", HttpCode(raised), raised))
    ELSE Propagated(api_key, raised)

\* mutant: `except GoogleAPICallError` placed before the three specific clauses
check_key_try_broad_first(api_key, model_name, raised) ==
    IF raised = None
    THEN Returned(api_key, TRUE, Reason("Valid", 0, ""))
    ELSE IF IsInstance(raised, "GoogleAPICallError")
    THEN Returned(api_key, FALSE, Reason("Google API Error", HttpCode(raised), raised))
    ELSE IF IsInstance(raised, "PermissionDenied")
    THEN Returned(api_key, FALSE, Reason("Permission Denied", 403, ""))
    ELSE IF IsInstance(raised, "InvalidArgument")
    THEN Returned(api_key, FALSE, Reason("Invalid Argument", 400, model_name))
    ELSE IF IsInstance(raised, "ResourceExhausted")
    THEN Returned(api_key, FALSE, Reason("Resource Exhausted", 429, ""))
    ELSE IF IsInstance(raised, "Exception")
    THEN Returned(api_key, FALSE, Reason("An unexpected error occurred", 0, raised))
    ELSE Propagated(api_key, raised)

\* mutant: no `except GoogleAPICallError` clause
check_key_try_no_service_clause(api_key, model_name, raised) ==
    IF raised = None
    THEN Returned(api_key, TRUE, Reason("Valid", 0, ""))
    ELSE IF IsInstance(raised, "PermissionDenied")
    THEN Returned(api_key, FALSE, Reason("Permission Denied", 403, ""))
    ELSE IF IsInstance(raised, "InvalidArgument")
    THEN Returned(api_key, FALSE, Reason("Invalid Argument", 400, model_name))
    ELSE IF IsInstance(raised, "ResourceExhausted")
    THEN Returned(api_key, FALSE, Reason("Resource Exhausted", 429, ""))
    ELSE IF IsInstance(raised, "Exception")
    THEN Returned(api_key, FALSE, Reason("An unexpected error occurred", 0, raised))
    ELSE Propagated(api_key, raised)

\* the try block of check_key once the call has returned or raised `raised`
check_key_try(api_key, model_name, raised) ==
    IF raised = None
    THEN Returned(api_key, TRUE, Reason("Valid", 0, ""))
    ELSE IF IsInstance(raised, "PermissionDenied")
    THEN Returned(api_key, FALSE, Reason("Permission Denied", 403, ""))
    ELSE IF IsInstance(raised, "InvalidArgument")
    THEN Returned(api_key, FALSE, Reason("Invalid Argument", 400, model_name))
    ELSE IF IsInstance(raised, "ResourceExhausted")
    THEN Returned(api_key, FALSE, Reason("Resource Exhausted", 429, ""))
    ELSE IF IsInstance(raised, "GoogleAPICallError")
    THEN Returned(api_key, FALSE, Reason("Google API Error", HttpCode(raised), raised))
    ELSE IF IsInstance(raised, "Exception")
    THEN Returned(api_key, FALSE, Reason("An unexpected error occurred", 0, raised))
    ELSE Propagated(api_key, raised)

\* the early return of check_key
check_key_empty(api_key) == Returned(api_key, FALSE, Reason("Key is empty", 0, ""))

\* --------------------------------------------------------------- state
VARIABLES
    input,          \* the lines of the input file or of stdin
    service,        \* what the remote service answers a call with in this run
    workers,        \* args.workers
    pc,             \* main's position
    keys_to_check,  \* the filtered credential list
    valid_keys,     \* main's valid_keys list
    stderr,         \* what main has written to sys.stderr
    tpc,            \* per task: its future's and its check_key's position
    result,         \* per task: what its future holds once finished
    raised,         \* per task: what its network call returned or raised
    usedKey,        \* per task: the credential its network call was made with
    ncalls,         \* per task: the network calls it has issued
    client_config,  \* genai's module-level configuration: the configured api_key
    default_client, \* genai's cached default client: the api_key it was built with
    finished_order, \* the tasks in the order their futures finished
    snapshot,       \* as_completed: the futures found finished when it started
    consumed,       \* the tasks whose future main has consumed, in order
    import_ok,      \* whether the imports of lines 12-14 succeed
    source,         \* where the input comes from
    args_format,    \* args.format, "unread" until main reads it at line 156
    args_output_file, \* args.output_file, "unread" until main reads it at line 163
    output_data,    \* main's output_data string
    stdout,         \* what was written to sys.stdout
    fileops         \* what was done to the file named by -o: opened for writing, written

vars == <<input, service, workers, pc, keys_to_check, valid_keys, stderr, tpc, result,
          raised, usedKey, ncalls, client_config, default_client,
          finished_order, snapshot, consumed, import_ok, source, args_format,
          args_output_file, output_data, stdout, fileops>>

\* the environment and the output side of main
iovars == <<import_ok, source, args_format, args_output_file, output_data, stdout, fileops>>

Tasks == 1 .. Len(keys_to_check)

NoResult == [raises |-> None, key |-> <<>>, is_valid |-> FALSE, reason |-> Reason("", 0, "")]

SeqsUpTo(S, n) == UNION { [1 .. k -> S] : k \in 0 .. n }

Range(f) == { f[i] : i \in DOMAIN f }

\* the tasks a worker thread is executing
Running == { t \in DOMAIN tpc : tpc[t] \in {"entered", "configured", "calling"} }

\* the first submitted task no worker has taken yet (the pool's work queue is FIFO)
QueueHead(t) ==
    /\ t \in DOMAIN tpc
    /\ tpc[t] = "queued"
    /\ \A u \in DOMAIN tpc : u < t => tpc[u] # "queued"

\* mutant: a pool that runs one work item at a time
WorkerFreeSerial == Cardinality(Running) = 0 /\ workers >= 1

\* mutant: a pool that starts a thread for every queued work item
WorkerFreeUnbounded == TRUE

\* a worker thread is free to take a work item: the pool runs at most max_workers threads
WorkerFree == Cardinality(Running) < workers

PrefixLen == 8

\* mutant: the whole key is displayed
KeyWhole(key) == key

\* key[:8]
KeyPrefix(key) == SubSeq(key, 1, IF Len(key) < PrefixLen THEN Len(key) ELSE PrefixLen)

\* a message on a stream: its kind, and of what it displays the key prefix, the
\* reason, a count of keys and a total of keys (-1: it displays none)
Message(kind, key, reason, count, total) ==
    [kind |-> kind, key |-> key, reason |-> reason, count |-> count, total |-> total]

Line(kind, key, reason) == Message(kind, key, reason, -1, -1)

NoReason == Reason("", 0, "")

\* the sources main can be given: "lines" is a readable file (-i) or a piped stdin,
\* which both give their lines by readlines(); a missing file; a terminal as stdin
Sources == {"lines", "missing_file", "tty"}

\* print(...) of a diagnostic without file=sys.stderr, parser.print_help()
Text(kind) == [kind |-> kind, text |-> <<>>]

\* print(output_data)
Data(text) == [kind |-> "data", text |-> text \o <<"\n">>]

\* ----------------------------------------------------------------- init
Init ==
    /\ import_ok \in BOOLEAN
    /\ source \in (IF import_ok THEN Sources ELSE {"lines"})
    /\ input \in (IF import_ok /\ source = "lines"
                  THEN SeqsUpTo(SampleLines, MaxLines) ELSE {<<>>})
    /\ service = RunResults
    /\ workers \in 0 .. MaxWorkers
    /\ pc = "import"
    /\ args_format = "unread"
    /\ args_output_file = "unread"
    /\ output_data = <<>>
    /\ stdout = <<>>
    /\ fileops = <<>>
    /\ keys_to_check = <<>>
    /\ valid_keys = <<>>
    /\ stderr = <<>>
    /\ tpc = <<>>
    /\ result = <<>>
    /\ raised = <<>>
    /\ usedKey = <<>>
    /\ ncalls = <<>>
    /\ client_config = <<>>
    /\ default_client = <<>>
    /\ finished_order = <<>>
    /\ snapshot = {}
    /\ consumed = <<>>

\* ----------------------------------------------------------------- main
\* mutant: no check for an empty list after filtering
ReadInputNoEmptyCheck ==
    /\ pc = "read"
    /\ source = "lines"
    /\ keys_to_check' = FilterLines(input)
    /\ pc' = "pool"
    /\ UNCHANGED <<input, service, workers, valid_keys, stderr, tpc, result, raised, usedKey,
                   ncalls, client_config, default_client, finished_order, snapshot,
                   consumed, iovars>>

\* lines 11-18: the import guard; a failed import prints two lines and exits 1
ImportGuard ==
    /\ pc = "import"
    /\ IF import_ok
       THEN /\ pc' = "read"
            /\ stdout' = stdout
       ELSE /\ pc' = "exit1"
            /\ stdout' = stdout \o <<Text("error"), Text("error")>>
    /\ UNCHANGED <<input, service, workers, keys_to_check, valid_keys, stderr, tpc, result,
                   raised, usedKey, ncalls, client_config, default_client,
                   finished_order, snapshot, consumed, import_ok, source, args_format,
                   args_output_file, output_data, fileops>>

\* lines 115-132: read the lines, strip them, drop the blank ones; a missing file
\* and a terminal as stdin end the program
ReadInput ==
    /\ pc = "read"
    /\ IF source = "missing_file"
       THEN /\ stderr' = Append(stderr, Line("input_not_found", <<>>, NoReason))
            /\ pc' = "exit1"
            /\ UNCHANGED <<keys_to_check, stdout>>
       ELSE IF source = "tty"
       THEN /\ stdout' = Append(stdout, Text("help"))
            /\ stderr' = Append(stderr, Line("no_input", <<>>, NoReason))
            /\ pc' = "exit1"
            /\ UNCHANGED keys_to_check
       ELSE /\ keys_to_check' = FilterLines(input)
            /\ stdout' = stdout
            /\ IF keys_to_check' = <<>>
               THEN /\ stderr' = Append(stderr, Line("no_keys", <<>>, NoReason))
                    /\ pc' = "exit0"
               ELSE /\ stderr' = stderr
                    /\ pc' = "pool"
    /\ UNCHANGED <<input, service, workers, valid_keys, tpc, result, raised, usedKey, ncalls,
                   client_config, default_client, finished_order, snapshot, consumed,
                   import_ok, source, args_format, args_output_file, output_data, fileops>>

\* mutant: a pool that accepts any max_workers
CreatePoolAnyWorkers ==
    /\ UNCHANGED iovars
    /\ pc = "pool"
    /\ valid_keys' = <<>>
    /\ stderr' = Append(stderr, Message("start", <<>>, NoReason, -1, Len(keys_to_check)))
    /\ pc' = "submit"
    /\ UNCHANGED <<input, service, workers, keys_to_check, tpc, result, raised, usedKey, ncalls,
                   client_config, default_client, finished_order, snapshot, consumed>>

\* lines 135-138: valid_keys = [], the banner, ThreadPoolExecutor(max_workers)
CreatePool ==
    /\ UNCHANGED iovars
    /\ pc = "pool"
    /\ valid_keys' = <<>>
    /\ stderr' = Append(stderr, Message("start", <<>>, NoReason, -1, Len(keys_to_check)))
    /\ pc' = IF workers <= 0 THEN "crashed" ELSE "submit"
    /\ UNCHANGED <<input, service, workers, keys_to_check, tpc, result, raised, usedKey, ncalls,
                   client_config, default_client, finished_order, snapshot, consumed>>

\* line 139: executor.submit(check_key, key, args.model) for the next key of the list
Submit ==
    /\ UNCHANGED iovars
    /\ pc = "submit"
    /\ Len(tpc) < Len(keys_to_check)
    /\ tpc' = Append(tpc, "queued")
    /\ result' = Append(result, NoResult)
    /\ raised' = Append(raised, None)
    /\ usedKey' = Append(usedKey, <<>>)
    /\ ncalls' = Append(ncalls, 0)
    /\ pc' = IF Len(tpc') = Len(keys_to_check) THEN "as_completed" ELSE "submit"
    /\ UNCHANGED <<input, service, workers, keys_to_check, valid_keys, stderr,
                   client_config, default_client, finished_order, snapshot, consumed>>

\* lines 140-142: as_completed starts with the futures that are already finished
StartAsCompleted ==
    /\ UNCHANGED iovars
    /\ pc = "as_completed"
    /\ snapshot' = { t \in DOMAIN tpc : tpc[t] = "finished" }
    /\ pc' = "consume"
    /\ UNCHANGED <<input, service, workers, keys_to_check, valid_keys, stderr, tpc, result,
                   raised, usedKey, ncalls, client_config, default_client,
                   finished_order, consumed>>

\* mutant: as_completed yields a finished future again
NextYieldedAgain(t) ==
    /\ t \in DOMAIN tpc
    /\ tpc[t] = "finished"
    /\ Len(consumed) < Len(tpc)

\* mutant: as_completed yields any finished future, whatever the finishing order
NextYieldedAnyOrder(t) ==
    /\ t \in DOMAIN tpc
    /\ tpc[t] = "finished"
    /\ t \notin Range(consumed)

\* the future as_completed yields next: any of those finished at its start, in no
\* particular order, then the others in the order they finish
NextYielded(t) ==
    /\ t \in DOMAIN tpc
    /\ tpc[t] = "finished"
    /\ t \notin Range(consumed)
    /\ IF snapshot \ Range(consumed) # {}
       THEN t \in snapshot
       ELSE \E i \in DOMAIN finished_order :
               /\ finished_order[i] = t
               /\ \A j \in 1 .. i - 1 : finished_order[j] \in Range(consumed)

\* mutant: the loop keeps a valid key only once
AggregateDedup(valid, err, r) ==
    IF r.is_valid
    THEN [valid |-> IF r.key \in Range(valid) THEN valid ELSE Append(valid, r.key),
          err |-> err]
    ELSE [valid |-> valid, err |-> Append(err, Line("failed", KeyPrefix(r.key), r.reason))]

\* mutant: the loop drops an invalid outcome without reporting it
AggregateDropInvalid(valid, err, r) ==
    IF r.is_valid
    THEN [valid |-> Append(valid, r.key), err |-> err]
    ELSE [valid |-> valid, err |-> err]

\* lines 143-148: what the loop body does with one future's result
Aggregate(valid, err, r) ==
    IF r.is_valid
    THEN [valid |-> Append(valid, r.key), err |-> err]
    ELSE [valid |-> valid, err |-> Append(err, Line("failed", KeyPrefix(r.key), r.reason))]

\* lines 142-148: one iteration of the loop over the completed futures
Consume(t) ==
    /\ UNCHANGED iovars
    /\ pc = "consume"
    /\ NextYielded(t)
    /\ consumed' = Append(consumed, t)
    /\ IF result[t].raises # None
       THEN /\ pc' = "crashed"
            /\ UNCHANGED <<valid_keys, stderr>>
       ELSE /\ pc' = pc
            /\ valid_keys' = Aggregate(valid_keys, stderr, result[t]).valid
            /\ stderr' = Aggregate(valid_keys, stderr, result[t]).err
    /\ UNCHANGED <<input, service, workers, keys_to_check, tpc, result, raised, usedKey, ncalls,
                   client_config, default_client, finished_order, snapshot>>

\* lines 142, 150: the loop ends when every future was yielded; the with block exits
\* mutant: the loop over as_completed is left after the first outcome
LeavePoolEarly ==
    /\ UNCHANGED iovars
    /\ pc = "consume"
    /\ Len(consumed) >= 1
    /\ pc' = "format"
    /\ UNCHANGED <<input, service, workers, keys_to_check, valid_keys, stderr, tpc, result,
                   raised, usedKey, ncalls, client_config, default_client,
                   finished_order, snapshot, consumed>>

LeavePool ==
    /\ UNCHANGED iovars
    /\ pc = "consume"
    /\ Len(consumed) = Len(tpc)
    /\ pc' = "format"
    /\ UNCHANGED <<input, service, workers, keys_to_check, valid_keys, stderr, tpc, result,
                   raised, usedKey, ncalls, client_config, default_client,
                   finished_order, snapshot, consumed>>

\* ------------------------------------------------------------ rendering
RECURSIVE JoinLines(_)
\* "\n".join(valid_keys)
JoinLines(v) ==
    IF v = <<>> THEN <<>>
    ELSE IF Len(v) = 1 THEN v[1]
    ELSE v[1] \o <<"\n">> \o JoinLines(Tail(v))

RECURSIVE JsonChars(_)
\* the characters of a JSON string: a quote and a backslash are escaped
JsonChars(k) ==
    IF k = <<>> THEN <<>>
    ELSE (IF Head(k) \in {"\"", "\\"} THEN <<"\\", Head(k)>> ELSE <<Head(k)>>)
         \o JsonChars(Tail(k))

JsonString(k) == <<"\"">> \o JsonChars(k) \o <<"\"">>

RECURSIVE JsonItems(_)
\* the items of json.dumps(..., indent=2): one per line, indented by two spaces
JsonItems(v) ==
    IF v = <<>> THEN <<>>
    ELSE <<" ", " ">> \o JsonString(v[1])
         \o (IF Len(v) = 1 THEN <<"\n">> ELSE <<",", "\n">>)
         \o JsonItems(Tail(v))

\* json.dumps(valid_keys, indent=2)
JsonDumps(v) ==
    IF v = <<>> THEN <<"[", "]">>
    ELSE <<"[", "\n">> \o JsonItems(v) \o <<"]">>

Formats == {"list", "json_array"}

\* mutant: the format option is ignored
RenderListOnly(fmt, v) == JoinLines(v)

\* lines 156-159: output_data of a non-empty valid_keys
Render(fmt, v) == IF fmt = "json_array" THEN JsonDumps(v) ELSE JoinLines(v)

FileOp(op, text) == [op |-> op, text |-> text]

\* lines 165-168: what a successful write does to the output file
FileWrites(data, fmt) ==
    <<FileOp("open_w", <<>>), FileOp("write", data)>>
    \o (IF fmt = "list" THEN <<FileOp("write", <<"\n">>)>> ELSE <<>>)

\* lines 151-159: the summary on stderr and output_data
Format ==
    /\ pc = "format"
    /\ IF valid_keys = <<>>
       THEN /\ output_data' = <<>>
            /\ stderr' = Append(stderr, Line("none_found", <<>>, NoReason))
            /\ args_format' = args_format
       ELSE /\ stderr' = Append(stderr,
                             Message("found", <<>>, NoReason, Len(valid_keys), -1))
            /\ \E fmt \in Formats :
                  /\ args_format' = fmt
                  /\ output_data' = Render(fmt, valid_keys)
    /\ pc' = "write"
    /\ UNCHANGED <<input, service, workers, keys_to_check, valid_keys, tpc, result,
                   raised, usedKey, ncalls, client_config, default_client,
                   finished_order, snapshot, consumed, import_ok, source,
                   args_output_file, stdout, fileops>>

\* what opening and writing the output file can do
FileOutcomes == {"ok", "open_fails", "write_fails"}

\* mutant: output_data is written without the check that it is not empty
WriteOutputNoCheck ==
    /\ pc = "write"
    /\ pc' = "done"
    /\ \E target \in {"none", "path"} :
          /\ args_output_file' = target
          /\ IF target = "none"
             THEN /\ stdout' = Append(stdout, Data(output_data))
                  /\ UNCHANGED <<fileops, stderr>>
             ELSE /\ stdout' = stdout
                  /\ \E outcome \in FileOutcomes :
                        IF outcome = "ok"
                        THEN /\ fileops' = fileops \o FileWrites(output_data, args_format)
                             /\ stderr' = Append(stderr, Line("saved", <<>>, NoReason))
                        ELSE /\ fileops' =
                                   (IF outcome = "open_fails" THEN fileops
                                    ELSE Append(fileops, FileOp("open_w", <<>>)))
                             /\ stderr' = Append(stderr, Line("write_error", <<>>, NoReason))
    /\ UNCHANGED <<input, service, workers, keys_to_check, valid_keys, tpc, result,
                   raised, usedKey, ncalls, client_config, default_client,
                   finished_order, snapshot, consumed, import_ok, source,
                   args_format, output_data>>

\* mutant: no except IOError around the write to the output file
WriteOutputNoExcept ==
    /\ pc = "write"
    /\ IF output_data = <<>>
       THEN /\ pc' = "done"
            /\ UNCHANGED <<args_output_file, stdout, fileops, stderr>>
       ELSE \E target \in {"none", "path"} :
               /\ args_output_file' = target
               /\ IF target = "none"
                  THEN /\ stdout' = Append(stdout, Data(output_data))
                       /\ pc' = "done"
                       /\ UNCHANGED <<fileops, stderr>>
                  ELSE /\ stdout' = stdout
                       /\ \E outcome \in FileOutcomes :
                             IF outcome = "ok"
                             THEN /\ fileops' = fileops \o FileWrites(output_data, args_format)
                                  /\ stderr' = Append(stderr, Line("saved", <<>>, NoReason))
                                  /\ pc' = "done"
                             ELSE /\ fileops' =
                                        (IF outcome = "open_fails" THEN fileops
                                         ELSE Append(fileops, FileOp("open_w", <<>>)))
                                  /\ stderr' = stderr
                                  /\ pc' = "crashed"
    /\ UNCHANGED <<input, service, workers, keys_to_check, valid_keys, tpc, result,
                   raised, usedKey, ncalls, client_config, default_client,
                   finished_order, snapshot, consumed, import_ok, source,
                   args_format, output_data>>

\* lines 162-173: output_data goes to the output file or to stdout
WriteOutput ==
    /\ pc = "write"
    /\ IF output_data = <<>>
       THEN UNCHANGED <<args_output_file, stdout, fileops, stderr>>
       ELSE \E target \in {"none", "path"} :
               /\ args_output_file' = target
               /\ IF target = "none"
                  THEN /\ stdout' = Append(stdout, Data(output_data))
                       /\ UNCHANGED <<fileops, stderr>>
                  ELSE /\ stdout' = stdout
                       /\ \E outcome \in FileOutcomes :
                             IF outcome = "ok"
                             THEN /\ fileops' = fileops \o FileWrites(output_data, args_format)
                                  /\ stderr' = Append(stderr, Line("saved", <<>>, NoReason))
                             ELSE /\ fileops' =
                                        (IF outcome = "open_fails" THEN fileops
                                         ELSE Append(fileops, FileOp("open_w", <<>>)))
                                  /\ stderr' = Append(stderr, Line("write_error", <<>>, NoReason))
    /\ pc' = "done"
    /\ UNCHANGED <<input, service, workers, keys_to_check, valid_keys, tpc, result,
                   raised, usedKey, ncalls, client_config, default_client,
                   finished_order, snapshot, consumed, import_ok, source,
                   args_format, output_data>>

\* the exit status of the process once main has ended
ExitStatus ==
    CASE pc \in {"exit0", "done"} -> 0
      [] pc \in {"exit1", "crashed"} -> 1
      [] OTHER -> -1

\* ---------------------------------------------------------------- tasks
Finish(t, r) ==
    /\ tpc' = [tpc EXCEPT ![t] = "finished"]
    /\ result' = [result EXCEPT ![t] = r]
    /\ finished_order' = Append(finished_order, t)

\* a worker thread takes the task from the queue and enters check_key (lines 38-39)
TaskStart(t) ==
    /\ UNCHANGED iovars
    /\ QueueHead(t)
    /\ WorkerFree
    /\ IF IsBlankKey(keys_to_check[t])
       THEN Finish(t, check_key_empty(keys_to_check[t]))
       ELSE /\ tpc' = [tpc EXCEPT ![t] = "entered"]
            /\ UNCHANGED <<result, finished_order>>
    /\ UNCHANGED <<input, service, workers, pc, keys_to_check, valid_keys, stderr, raised,
                   usedKey, ncalls, client_config, default_client, snapshot, consumed>>

\* lines 41-42: genai.configure(api_key=api_key) replaces the module-level
\* configuration and drops the cached clients; GenerativeModel() binds no client
TaskConfigure(t) ==
    /\ UNCHANGED iovars
    /\ t \in DOMAIN tpc
    /\ tpc[t] = "entered"
    /\ client_config' = <<keys_to_check[t]>>
    /\ default_client' = <<>>
    /\ tpc' = [tpc EXCEPT ![t] = "configured"]
    /\ UNCHANGED <<input, service, workers, pc, keys_to_check, valid_keys, stderr, result,
                   raised, usedKey, ncalls, finished_order, snapshot, consumed>>

\* the client generate_content sends with: the cached default client, built from
\* the current module-level configuration when there is none
ClientForCall(config, cached) == IF cached = <<>> THEN config ELSE cached

\* line 44: model.generate_content(...) takes the default client and sends the request
TaskCall(t) ==
    /\ UNCHANGED iovars
    /\ t \in DOMAIN tpc
    /\ tpc[t] = "configured"
    /\ default_client' = ClientForCall(client_config, default_client)
    /\ usedKey' = [usedKey EXCEPT ![t] = default_client']
    /\ ncalls' = [ncalls EXCEPT ![t] = @ + 1]
    /\ tpc' = [tpc EXCEPT ![t] = "calling"]
    /\ UNCHANGED <<input, service, workers, pc, keys_to_check, valid_keys, stderr, result,
                   raised, client_config, finished_order, snapshot, consumed>>

\* mutant: a call that raised is sent once more
TaskReturnRetry(t) ==
    /\ UNCHANGED iovars
    /\ t \in DOMAIN tpc
    /\ tpc[t] = "calling"
    /\ \E e \in service :
          IF e # None /\ ncalls[t] < 2
          THEN /\ tpc' = [tpc EXCEPT ![t] = "configured"]
               /\ UNCHANGED <<raised, result, finished_order>>
          ELSE /\ raised' = [raised EXCEPT ![t] = e]
               /\ Finish(t, check_key_try(keys_to_check[t], ModelName, e))
    /\ UNCHANGED <<input, service, workers, pc, keys_to_check, valid_keys, stderr,
                   usedKey, ncalls, client_config, default_client, snapshot, consumed>>

\* lines 44-65: the call returns or raises, at the latest when the timeout expires;
\* check_key returns and the future is finished
TaskReturn(t) ==
    /\ UNCHANGED iovars
    /\ t \in DOMAIN tpc
    /\ tpc[t] = "calling"
    /\ \E e \in service :
          /\ raised' = [raised EXCEPT ![t] = e]
          /\ Finish(t, check_key_try(keys_to_check[t], ModelName, e))
    /\ UNCHANGED <<input, service, workers, pc, keys_to_check, valid_keys, stderr,
                   usedKey, ncalls, client_config, default_client, snapshot, consumed>>

\* ----------------------------------------------------------------- spec
Next ==
    \/ ImportGuard
    \/ ReadInput
    \/ CreatePool
    \/ Submit
    \/ StartAsCompleted
    \/ \E t \in DOMAIN tpc : Consume(t)
    \/ LeavePool
    \/ Format
    \/ WriteOutput
    \/ \E t \in DOMAIN tpc : TaskStart(t)
    \/ \E t \in DOMAIN tpc : TaskConfigure(t)
    \/ \E t \in DOMAIN tpc : TaskCall(t)
    \/ \E t \in DOMAIN tpc : TaskReturn(t)

Spec == Init /\ [][Next]_vars

\* check_key called through the pool by a caller that does not filter its list:
\* the state at line 135 with any api_key strings, blank ones included
InitCheckKey ==
    /\ input = <<>>
    /\ service = RawResults
    /\ workers \in 0 .. MaxWorkers
    /\ pc = "pool"
    /\ import_ok = TRUE
    /\ source = "lines"
    /\ args_format = "unread"
    /\ args_output_file = "unread"
    /\ output_data = <<>>
    /\ stdout = <<>>
    /\ fileops = <<>>
    /\ keys_to_check \in SeqsUpTo(SampleKeys, MaxLines) \ {<<>>}
    /\ valid_keys = <<>>
    /\ stderr = <<>>
    /\ tpc = <<>>
    /\ result = <<>>
    /\ raised = <<>>
    /\ usedKey = <<>>
    /\ ncalls = <<>>
    /\ client_config = <<>>
    /\ default_client = <<>>
    /\ finished_order = <<>>
    /\ snapshot = {}
    /\ consumed = <<>>

NextCheckKey ==
    \/ CreatePool
    \/ Submit
    \/ StartAsCompleted
    \/ \E t \in DOMAIN tpc : Consume(t)
    \/ LeavePool
    \/ \E t \in DOMAIN tpc : TaskStart(t)
    \/ \E t \in DOMAIN tpc : TaskConfigure(t)
    \/ \E t \in DOMAIN tpc : TaskCall(t)
    \/ \E t \in DOMAIN tpc : TaskReturn(t)

SpecCheckKey == InitCheckKey /\ [][NextCheckKey]_vars

\* ------------------------------------------------- helpers of the claims
\* the taxonomy code a check_key result stands for
Taxonomy(r) ==
    CASE r.reason.msg = "Key is empty" -> "EMPTY"
      [] r.reason.msg = "Permission Denied" -> "PERMISSION_DENIED"
      [] r.reason.msg = "Invalid Argument" -> "INVALID_ARGUMENT"
      [] r.reason.msg = "Resource Exhausted" -> "RESOURCE_EXHAUSTED"
      [] r.reason.msg = "Google API Error" -> "SERVICE_ERROR"
      [] r.reason.msg = "An unexpected error occurred" -> "UNKNOWN_ERROR"
      [] r.reason.msg = "Valid" -> "VALID"
      [] OTHER -> "NONE"

FinishedTasks == { t \in DOMAIN tpc : tpc[t] = "finished" }

\* the failure lines main wrote to stderr, one per invalid outcome
InvalidReports == SelectSeq(stderr, LAMBDA l : l.kind = "failed")

Count(seq, x) == Cardinality({ i \in DOMAIN seq : seq[i] = x })

NonBlankLines == { i \in DOMAIN input : Strip(input[i]) # <<>> }

\* ---------------------------------------------------------------- claims

\* C1: under every interleaving of the worker threads, the network call issued by
\* the task for credential k is made with credential k, never with a credential
\* that another task configured concurrently.
C1_CallUsesOwnCredential ==
    \A t \in DOMAIN tpc :
        usedKey[t] # <<>> => usedKey[t] = <<keys_to_check[t]>>

\* C2: in every reachable state the number of check_key tasks a worker is
\* executing is at most args.workers; a task beyond the limit stays queued.
C2_AtMostWorkersRunning ==
    /\ Cardinality(Running) <= workers
    /\ \A t \in DOMAIN tpc :
          (tpc[t] = "queued" /\ Cardinality(Running) = workers) => ~ENABLED TaskStart(t)

\* the pool is full and a submitted task waits in the queue
C2_Witness ==
    /\ workers >= 1
    /\ Cardinality(Running) = workers
    /\ \E t \in DOMAIN tpc : tpc[t] = "queued"

\* C3: once every outcome is consumed, each task's outcome is in exactly one of
\* the two partitions: the valid keys are as many as the tasks that returned valid,
\* the failure reports as many as the tasks that returned invalid, and together
\* they are as many as the non-blank input lines.
C3_PartitionCoversInput ==
    pc = "format" =>
        /\ Len(valid_keys) + Len(InvalidReports) = Cardinality(NonBlankLines)
        /\ Len(valid_keys) = Cardinality({ t \in DOMAIN tpc : result[t].is_valid })
        /\ Len(InvalidReports) = Cardinality({ t \in DOMAIN tpc : ~result[t].is_valid })

\* a finished run with a blank line filtered out, one valid and one invalid key
C3_Witness ==
    /\ pc = "format"
    /\ Len(valid_keys) = 1
    /\ Len(InvalidReports) = 1

\* C4: one task is submitted per element of the filtered list, repeated
\* credentials included; each task finishes once and its future is consumed once.
C4_OneTaskPerElement ==
    /\ Len(tpc) <= Len(keys_to_check)
    /\ pc \in {"as_completed", "consume", "format"} =>
          /\ Len(tpc) = Cardinality(NonBlankLines)
          /\ \A t \in DOMAIN tpc : keys_to_check[t] = FilterLines(input)[t]
    /\ \A t \in DOMAIN tpc : Count(finished_order, t) = (IF tpc[t] = "finished" THEN 1 ELSE 0)
    /\ \A t \in DOMAIN tpc : Count(consumed, t) <= 1
    /\ pc = "format" => \A t \in DOMAIN tpc : Count(consumed, t) = 1

\* a finished run whose input holds the same credential twice
C4_Witness ==
    /\ pc = "format"
    /\ Len(keys_to_check) = 2
    /\ keys_to_check[1] = keys_to_check[2]
    /\ Len(consumed) = 2

\* C5: whatever the network call raises, check_key returns a (key, False, reason)
\* value instead of raising: no future holds an exception, main's loop never
\* crashes on future.result(), and a run that left the loop consumed every task.
C5_NoProbeFailureEscapes ==
    /\ \A t \in FinishedTasks :
          /\ result[t].raises = None
          /\ raised[t] # None => ~result[t].is_valid /\ result[t].key = keys_to_check[t]
    /\ pc = "crashed" => tpc = <<>>
    /\ pc = "format" => Range(consumed) = DOMAIN tpc /\ Len(tpc) = Len(keys_to_check)

\* a finished run in which the first consumed probe failed and a later one was valid
C5_Witness ==
    /\ pc = "format"
    /\ Len(consumed) = 2
    /\ raised[consumed[1]] = "TimeoutError"
    /\ result[consumed[2]].is_valid

\* a credential that is empty or holds nothing but whitespace
BlankCredential(k) == \A i \in DOMAIN k : k[i] \in Whitespace

\* the code the classifier is to give: by the blank key first, then by the class raised
ExpectedCode(api_key, e) ==
    IF BlankCredential(api_key) THEN "EMPTY"
    ELSE CASE e = None -> "VALID"
           [] e = "PermissionDenied" -> "PERMISSION_DENIED"
           [] e = "InvalidArgument" -> "INVALID_ARGUMENT"
           [] e = "ResourceExhausted" -> "RESOURCE_EXHAUSTED"
           [] e \in ServiceClasses \ {"PermissionDenied", "InvalidArgument", "ResourceExhausted"}
                -> "SERVICE_ERROR"
           [] e \in OtherClasses -> "UNKNOWN_ERROR"

\* C6: the classifier is total and first match wins: every result is exactly one
\* of the seven codes; PermissionDenied (403) gives PERMISSION_DENIED,
\* InvalidArgument (400) INVALID_ARGUMENT, ResourceExhausted (429)
\* RESOURCE_EXHAUSTED, any other service error SERVICE_ERROR, any non-service
\* exception UNKNOWN_ERROR, a blank key EMPTY, and only a call that raised
\* nothing VALID, the only outcome with is_valid true.
C6_ClassifierTotalFirstMatch ==
    \A t \in FinishedTasks :
        /\ result[t].raises = None
        /\ Taxonomy(result[t]) = ExpectedCode(keys_to_check[t], raised[t])
        /\ result[t].is_valid <=> Taxonomy(result[t]) = "VALID"
        /\ result[t].key = keys_to_check[t]

\* a blank key classified EMPTY beside a service error that is none of the three named
C6_Witness ==
    /\ Len(tpc) = 2
    /\ FinishedTasks = {1, 2}
    /\ Taxonomy(result[1]) = "EMPTY"
    /\ Taxonomy(result[2]) = "SERVICE_ERROR"
    /\ result[2].reason.code = 504

\* C7 as stated: a probe whose call exceeds the timeout resolves to an invalid
\* outcome classified UNKNOWN_ERROR.
C7_TimeoutIsUnknownError ==
    \A t \in DOMAIN tpc :
        raised[t] \in TimeoutClasses =>
            /\ tpc[t] = "finished"
            /\ ~result[t].is_valid
            /\ Taxonomy(result[t]) = "UNKNOWN_ERROR"

\* C7 amended: a probe whose call exceeds the timeout resolves to an invalid
\* outcome whose detail names the class raised; it is classified SERVICE_ERROR
\* when that class is a GoogleAPICallError (DeadlineExceeded, code 504) and
\* UNKNOWN_ERROR when it is not.
C7_TimeoutResolvesInvalid ==
    \A t \in DOMAIN tpc :
        raised[t] \in TimeoutClasses =>
            /\ tpc[t] = "finished"
            /\ result[t].raises = None
            /\ ~result[t].is_valid
            /\ result[t].reason.detail = raised[t]
            /\ Taxonomy(result[t]) =
                  (IF raised[t] \in ServiceClasses THEN "SERVICE_ERROR" ELSE "UNKNOWN_ERROR")

\* both kinds of timeout consumed by main and reported as failures
C7_Witness ==
    /\ pc = "format"
    /\ Len(tpc) = 2
    /\ raised[1] = "DeadlineExceeded"
    /\ raised[2] = "TimeoutError"
    /\ Len(InvalidReports) = 2

\* C8: an empty or whitespace-only api_key is classified invalid (EMPTY) without
\* a network call: the task never configures or calls, and its call counter stays 0.
C8_BlankKeyMakesNoCall ==
    \A t \in DOMAIN tpc :
        BlankCredential(keys_to_check[t]) =>
            /\ ncalls[t] = 0
            /\ usedKey[t] = <<>>
            /\ tpc[t] \in {"queued", "finished"}
            /\ client_config # <<keys_to_check[t]>>
            /\ tpc[t] = "finished" =>
                  /\ Taxonomy(result[t]) = "EMPTY"
                  /\ ~result[t].is_valid

\* a whitespace-only key classified beside a non-blank key that did call
C8_Witness ==
    /\ Len(tpc) = 2
    /\ keys_to_check[1] = <<" ">>
    /\ tpc[1] = "finished"
    /\ Taxonomy(result[1]) = "EMPTY"
    /\ ncalls[2] = 1

\* the steps of the main thread, which is at one place at a time
Main ==
    \/ ImportGuard
    \/ ReadInput
    \/ CreatePool
    \/ Submit
    \/ StartAsCompleted
    \/ \E t \in DOMAIN tpc : Consume(t)
    \/ LeavePool
    \/ Format
    \/ WriteOutput

\* every thread is scheduled again and again; every network call returns or fails
\* within its timeout, except that the first task's call may take arbitrarily long
Fairness ==
    /\ WF_vars(Main)
    /\ \A t \in 1 .. MaxLines : WF_vars(TaskStart(t) \/ TaskConfigure(t) \/ TaskCall(t))
    /\ \A t \in 2 .. MaxLines : WF_vars(TaskReturn(t))

SlowProbeSpec == Init /\ [][Next]_vars /\ Fairness

\* C9: under fair scheduling, once the slow probe's call has returned the run
\* consumes every outcome, leaves the pool and ends; and while the slow probe holds its
\* worker slot, every other submitted task is started and finishes on the
\* remaining slots, without waiting for it.
C9_RunFinishesSlowProbeBlocksNoOther ==
    /\ (Len(tpc) >= 1 /\ tpc[1] = "finished")
          ~> (pc = "done" /\ Len(consumed) = Len(keys_to_check))
    /\ \A t \in 2 .. MaxLines :
          (workers >= 2 /\ Len(tpc) >= t) ~> (Len(tpc) >= t /\ tpc[t] = "finished")

\* the second task is finished and consumed while the first is still in its call
C9_Witness ==
    /\ Len(tpc) = 2
    /\ tpc[1] = "calling"
    /\ tpc[2] = "finished"
    /\ consumed = <<2>>

\* C10: whatever the completion order, the run ends with the same multiset of
\* valid keys: each task that returned valid once, no task that returned invalid.
C10_ValidMultisetIndependentOfOrder ==
    pc = "format" =>
        /\ \A k \in Range(keys_to_check) :
              Count(valid_keys, k) =
                  Cardinality({ t \in DOMAIN tpc : result[t].is_valid /\ keys_to_check[t] = k })
        /\ Range(valid_keys) \subseteq Range(keys_to_check)

\* the same credential twice, both valid, consumed against the submission order
C10_Witness ==
    /\ pc = "format"
    /\ consumed = <<2, 1>>
    /\ keys_to_check[1] = keys_to_check[2]
    /\ Len(valid_keys) = 2


\* the pc values at which main has ended
Ended == {"exit0", "exit1", "crashed", "done"}

\* the data written to stdout
StdoutData == SelectSeq(stdout, LAMBDA w : w.kind = "data")

\* C11: if no line of the input is left after filtering, the run ends at once with
\* an empty valid set and no invalid outcome: no pool is created, no task is
\* submitted, no probe is executed.
C11_EmptyInputRunsNothing ==
    (import_ok /\ source = "lines" /\ NonBlankLines = {} /\ pc \notin {"import", "read"}) =>
        /\ pc = "exit0"
        /\ valid_keys = <<>>
        /\ InvalidReports = <<>>
        /\ \A i \in DOMAIN stderr : stderr[i].kind # "start"
        /\ tpc = <<>>
        /\ ncalls = <<>>
        /\ client_config = <<>>
        /\ stdout = <<>>
        /\ fileops = <<>>

\* an input of blank lines only has been read and the program has ended
C11_Witness ==
    /\ source = "lines"
    /\ Len(input) = 2
    /\ NonBlankLines = {}
    /\ pc = "exit0"

\* C12 as stated: outcomes are consumed in the order their tasks finish.
C12_ConsumedInFinishOrder ==
    \A i \in DOMAIN consumed : consumed[i] = finished_order[i]

\* the keys of the tasks of `order` that returned valid
RECURSIVE ValidKeysOf(_)
ValidKeysOf(order) ==
    IF order = <<>> THEN <<>>
    ELSE (IF result[Head(order)].is_valid THEN <<keys_to_check[Head(order)]>> ELSE <<>>)
         \o ValidKeysOf(Tail(order))

\* the position of x in a sequence without repetition
Pos(seq, x) == CHOOSE i \in DOMAIN seq : seq[i] = x

\* C12 amended: valid_keys holds the valid credentials in the order the futures
\* were consumed, which is not the submission order; the futures that finished
\* after the iteration over as_completed started are consumed in the order they
\* finished, after those that had finished before, which come in no particular order.
C12_ValidKeysInConsumptionOrder ==
    pc \notin {"crashed"} =>
        /\ valid_keys = ValidKeysOf(consumed)
        /\ \A i, j \in DOMAIN consumed :
              (i < j /\ consumed[i] \notin snapshot /\ consumed[j] \notin snapshot)
                  => Pos(finished_order, consumed[i]) < Pos(finished_order, consumed[j])
        /\ \A i, j \in DOMAIN consumed :
              (consumed[i] \notin snapshot /\ consumed[j] \in snapshot) => j < i

\* the task submitted second finished first, after the iteration started, and its
\* key comes first in valid_keys
C12_Witness ==
    /\ pc = "done"
    /\ snapshot = {}
    /\ finished_order = <<2, 1>>
    /\ consumed = <<2, 1>>
    /\ valid_keys = <<keys_to_check[2], keys_to_check[1]>>
    /\ keys_to_check[1] # keys_to_check[2]


\* the summary lines main wrote to stderr
Summaries == SelectSeq(stderr, LAMBDA l : l.kind \in {"found", "none_found"})

\* the consumed tasks that returned invalid, in the order they were consumed
RECURSIVE InvalidTasksOf(_)
InvalidTasksOf(order) ==
    IF order = <<>> THEN <<>>
    ELSE (IF result[Head(order)].is_valid THEN <<>> ELSE <<Head(order)>>)
         \o InvalidTasksOf(Tail(order))

\* every invalid outcome consumed so far has its own line on stderr, with the
\* first PrefixLen characters of its credential and its reason
InvalidReportedEach ==
    /\ Len(InvalidReports) = Len(InvalidTasksOf(consumed))
    /\ \A i \in DOMAIN InvalidReports :
          LET t == InvalidTasksOf(consumed)[i]
              shown == InvalidReports[i].key
          IN  /\ InvalidReports[i].reason = result[t].reason
              /\ Len(shown) = (IF Len(keys_to_check[t]) < PrefixLen
                               THEN Len(keys_to_check[t]) ELSE PrefixLen)
              /\ \A j \in DOMAIN shown : shown[j] = keys_to_check[t][j]

\* C13 as stated: each invalid outcome is reported on its own, and the run ends
\* with a summary that gives the count of valid credentials against the total.
C13_SummaryCountsValidAgainstTotal ==
    /\ pc # "crashed" => InvalidReportedEach
    /\ pc \in {"write", "done"} =>
          \E i \in DOMAIN Summaries :
              /\ Summaries[i].count = Len(valid_keys)
              /\ Summaries[i].total = Len(keys_to_check)

\* C13 amended: each invalid outcome is reported on its own with the prefix of its
\* credential and its reason, and the loop goes on to the last future; the run then
\* ends with one summary: the count of valid credentials, without the total, when
\* there is at least one, and a message without any count when there is none.
C13_EachInvalidReportedOneSummary ==
    /\ pc # "crashed" => InvalidReportedEach
    /\ pc \in {"format", "write", "done"} => Len(consumed) = Len(keys_to_check)
    /\ pc \in {"write", "done"} =>
          /\ Len(Summaries) = 1
          /\ Summaries[1].total = -1
          /\ IF valid_keys = <<>>
             THEN Summaries[1].kind = "none_found" /\ Summaries[1].count = -1
             ELSE Summaries[1].kind = "found" /\ Summaries[1].count = Len(valid_keys)
    /\ pc \notin {"write", "done"} => Summaries = <<>>

\* a run without any valid credential: two failures reported, one of them with a
\* credential cut to its prefix, then the summary
C13_Witness ==
    /\ pc = "done"
    /\ valid_keys = <<>>
    /\ Len(InvalidReports) = 2
    /\ \E i \in DOMAIN InvalidReports :
          \E t \in DOMAIN tpc :
              /\ Len(keys_to_check[t]) > PrefixLen
              /\ Len(InvalidReports[i].key) = PrefixLen
    /\ Len(Summaries) = 1


\* C14: on every path, diagnostic, help, error and progress messages go to the
\* diagnostic stream only: stdout and the output file receive nothing but the
\* rendered valid credentials.
C14_DataStreamHoldsOnlyData ==
    /\ \A i \in DOMAIN stdout :
          /\ stdout[i].kind = "data"
          /\ stdout[i].text = output_data \o <<"\n">>
    /\ \A i \in DOMAIN fileops :
          fileops[i].op = "write" => fileops[i].text \in {output_data, <<"\n">>}


Kinds(stream) == { stream[i].kind : i \in DOMAIN stream }

\* the output file was opened for writing, or written
FileTouched == fileops # <<>>

\* the data reached the output file
FileHoldsData == \E i \in DOMAIN fileops : fileops[i].op = "write"

\* C15: no credential after filtering ends the program with status 0 and no data
\* output; a missing input file ends it with status 1 before any probe; an output
\* file that cannot be written is reported on stderr and the program still ends
\* normally, with status 0.
C15_ExitBehaviour ==
    /\ (import_ok /\ source = "lines" /\ NonBlankLines = {} /\ pc \notin {"import", "read"}) =>
          /\ ExitStatus = 0
          /\ stdout = <<>>
          /\ ~FileTouched
    /\ (source = "missing_file" /\ pc \notin {"import", "read"}) =>
          /\ ExitStatus = 1
          /\ "input_not_found" \in Kinds(stderr)
          /\ tpc = <<>>
          /\ ncalls = <<>>
          /\ stdout = <<>>
    /\ (args_output_file = "path" /\ ~FileHoldsData) =>
          /\ pc = "done"
          /\ ExitStatus = 0
          /\ "write_error" \in Kinds(stderr)
          /\ "saved" \notin Kinds(stderr)
    /\ pc = "crashed" => args_output_file = "unread"

\* the output file was opened and the write failed: reported, and main ended
C15_Witness ==
    /\ pc = "done"
    /\ args_output_file = "path"
    /\ FileTouched
    /\ ~FileHoldsData
    /\ "write_error" \in Kinds(stderr)

RECURSIVE SplitLinesAcc(_, _, _)
SplitLinesAcc(text, cur, acc) ==
    IF text = <<>> THEN (IF cur = <<>> THEN acc ELSE Append(acc, cur))
    ELSE IF Head(text) = "\n" THEN SplitLinesAcc(Tail(text), <<>>, Append(acc, cur))
    ELSE SplitLinesAcc(Tail(text), Append(cur, Head(text)), acc)

\* the lines of a text, each ended by a newline or by the end of the text
SplitLines(text) == SplitLinesAcc(text, <<>>, <<>>)

RECURSIVE JsonStringsAcc(_, _, _, _)
JsonStringsAcc(text, mode, cur, acc) ==
    IF text = <<>> THEN acc
    ELSE IF mode = "out"
    THEN JsonStringsAcc(Tail(text), IF Head(text) = "\"" THEN "str" ELSE "out", <<>>, acc)
    ELSE IF mode = "esc"
    THEN JsonStringsAcc(Tail(text), "str", Append(cur, Head(text)), acc)
    ELSE IF Head(text) = "\\" THEN JsonStringsAcc(Tail(text), "esc", cur, acc)
    ELSE IF Head(text) = "\"" THEN JsonStringsAcc(Tail(text), "out", <<>>, Append(acc, cur))
    ELSE JsonStringsAcc(Tail(text), "str", Append(cur, Head(text)), acc)

\* the strings of a JSON array of strings
JsonStrings(text) == JsonStringsAcc(text, "out", <<>>, <<>>)

\* a text without the newline that ends it
Chomp(text) ==
    IF text # <<>> /\ text[Len(text)] = "\n" THEN SubSeq(text, 1, Len(text) - 1) ELSE text

RECURSIVE Concat(_)
Concat(texts) == IF texts = <<>> THEN <<>> ELSE Head(texts) \o Concat(Tail(texts))

\* what the run wrote to its target: the output file, or stdout
Written ==
    IF args_output_file = "path"
    THEN Concat([i \in DOMAIN fileops |-> fileops[i].text])
    ELSE Concat([i \in DOMAIN stdout |-> stdout[i].text])

\* C16: for a non-empty valid list v, format list gives the elements of v one per
\* line, in v's order; format json_array gives a JSON array of strings with
\* exactly the elements of v in v's order; what is written is that rendering,
\* ended by at most a newline, on stdout and in the output file alike.
C16_RenderedOutput ==
    (pc = "done" /\ valid_keys # <<>> /\ (args_output_file = "none" \/ FileHoldsData)) =>
        /\ args_format = "list" =>
              /\ SplitLines(Written) = valid_keys
              /\ Written[Len(Written)] = "\n"
        /\ args_format = "json_array" =>
              /\ JsonStrings(Written) = valid_keys
              /\ Head(Written) = "["
              /\ Chomp(Written)[Len(Chomp(Written))] = "]"
        /\ Chomp(Written) = output_data
        /\ \A i \in DOMAIN output_data :
              output_data[i] = "\n" => i \notin {1, Len(output_data)}

\* two valid keys, of which one needs escaping, written to the output file as a
\* JSON array
C16_Witness ==
    /\ pc = "done"
    /\ Len(valid_keys) = 2
    /\ valid_keys[1] # valid_keys[2]
    /\ \E i \in 1..2 : "\"" \in Range(valid_keys[i])
    /\ args_format = "json_array"
    /\ args_output_file = "path"
    /\ FileHoldsData


RECURSIVE Sum(_)
Sum(seq) == IF seq = <<>> THEN 0 ELSE Head(seq) + Sum(Tail(seq))

\* the credentials of the input that are not blank, one per line that holds one
NonBlankCredentials == SelectSeq(input, LAMBDA l : ~BlankCredential(l))

\* C17: an invocation of check_key on a non-blank credential sends exactly one
\* request and never a second one; when all outcomes of a run are in, the number
\* of requests sent equals the number of non-blank credentials of the input.
C17_OneCallPerCredential ==
    /\ \A t \in DOMAIN tpc :
          /\ ncalls[t] <= 1
          /\ (tpc[t] \in {"calling", "finished"} /\ ~BlankCredential(keys_to_check[t]))
                => ncalls[t] = 1
    /\ pc \in {"format", "write", "done"} => Sum(ncalls) = Len(NonBlankCredentials)

\* a run of two credentials has ended after a request that failed
C17_Witness ==
    /\ pc = "done"
    /\ Len(NonBlankCredentials) = 2
    /\ Sum(ncalls) = 2
    /\ \E t \in DOMAIN raised : raised[t] # None

\* C18: data is on stdout or the output file is opened only when every key of the
\* list has been submitted, every task has finished and every outcome has been
\* consumed by main.
C18_OutputAfterWholeBatch ==
    (StdoutData # <<>> \/ FileTouched) =>
        /\ Len(tpc) = Len(keys_to_check)
        /\ \A t \in DOMAIN tpc : tpc[t] = "finished"
        /\ Range(consumed) = DOMAIN keys_to_check
        /\ Len(consumed) = Len(keys_to_check)

\* data was written after a batch of two tasks, of which one is valid
C18_Witness ==
    /\ StdoutData # <<>>
    /\ Len(keys_to_check) = 2
    /\ Len(valid_keys) = 1

\* C19: while no credential is classified valid, stdout holds no data and the
\* output file is neither opened nor written; a run that has classified its
\* credentials and found none valid has written nothing at all to stdout.
C19_NoValidKeyWritesNothing ==
    /\ valid_keys = <<>> =>
          /\ StdoutData = <<>>
          /\ ~FileTouched
          /\ "saved" \notin Kinds(stderr)
    /\ (valid_keys = <<>> /\ pc \in {"format", "write", "done"}) => stdout = <<>>

\* main has ended after a batch in which no credential was valid
C19_Witness ==
    /\ pc = "done"
    /\ valid_keys = <<>>
    /\ Len(consumed) >= 1
    /\ "none_found" \in Kinds(stderr)

\* C20: with a key to check and a worker count below 1 the run fails where the
\* pool is created: no task is submitted, no probe runs, no request is sent and
\* nothing is written to stdout or to the output file.
C20_NoWorkersFailsBeforeSubmit ==
    (keys_to_check # <<>> /\ workers < 1 /\ pc \notin {"import", "read", "pool"}) =>
        /\ pc = "crashed"
        /\ ExitStatus = 1
        /\ tpc = <<>>
        /\ ncalls = <<>>
        /\ client_config = <<>>
        /\ consumed = <<>>
        /\ stdout = <<>>
        /\ ~FileTouched

\* the pool was refused for a list of two keys
C20_Witness ==
    /\ pc = "crashed"
    /\ workers = 0
    /\ Len(keys_to_check) = 2

====
